---- MODULE Spec2Model ----
(***************************************************************************)
(* Pomodoro timer of src/pomobuddy/src/App.jsx (React component App).      *)
(*                                                                         *)
(* State: the six useState cells, intervalRef.current, and the set of      *)
(* intervals created by setInterval that have not been cleared.  Each live *)
(* interval carries the values of isBreak and sessionCount captured by the *)
(* closure of the render whose effect created it.                          *)
(*                                                                         *)
(* Granularity: one action per event (a button's click handler, or one     *)
(* firing of an interval callback).  JavaScript runs an event to           *)
(* completion and React batches every setState call made by it, renders,   *)
(* commits and runs the useEffect of lines 23-68 before the next event is  *)
(* handled; each action therefore includes the state updates, the effect   *)
(* cleanup and the effect body that the event causes.                      *)
(*                                                                         *)
(* lastOp is a history variable: the event that produced the state.        *)
(***************************************************************************)
EXTENDS Integers, Sequences, FiniteSets

VARIABLES timer, isActive, isBreak, sessionCount, showModal, modalMessage,
          intervalRef, live, lastOp

vars == <<timer, isActive, isBreak, sessionCount, showModal, modalMessage,
          intervalRef, live, lastOp>>

\* ---- configuration (App.jsx lines 6-9) ----
WORK_TIME == 3600
SHORT_BREAK_TIME == 300
LONG_BREAK_TIME == 900
LONG_BREAK_INTERVAL == 4

\* ---- bound of the model: sessions counted before reset is required ----
MaxSessions == 8

\* intervalRef.current === null
Null == 0

MsgNone == ""
MsgLong == "Time for a long break!"
MsgShort == "Time for a short break!"
MsgWork == "Time to work!"

\* ---- intervals ----
\* clearInterval(id): the interval with that id, if any, stops firing.
ClearInterval(L, id) == {iv \in L : iv.id # id}

IdsOf(L) == {iv.id : iv \in L}

\* setInterval returns an id that no live interval has and that differs from
\* the (possibly stale) id still held by intervalRef: browsers never reuse one.
FreshId(L, ref) ==
  LET cand == (1..(Cardinality(L) + 2)) \ (IdsOf(L) \cup {ref})
  IN CHOOSE i \in cand : \A j \in cand : i <= j

\* Variant of DepsChanged: isBreak missing from the dependency list.
DepsChangedNoBreak(a, b, s) == <<isActive, sessionCount>> # <<a, s>>

\* Dependency list of the effect (line 68): it re-runs when one of them differs
\* from the previous render.
DepsChanged(a, b, s) == <<isActive, isBreak, sessionCount>> # <<a, b, s>>

\* Variant of EffectLive: neither the cleanup (line 67) nor the else branch
\* (line 63) clears the interval.
EffectLiveNoClear(L, ref, a, b, s) ==
  IF ~DepsChanged(a, b, s) THEN L
  ELSE IF a THEN L \cup {[id |-> FreshId(L, ref), isBreak |-> b, sessionCount |-> s]}
       ELSE L

\* The effect of lines 23-68 after a render with isActive = a, isBreak = b,
\* sessionCount = s.  L and ref are the live intervals and intervalRef.current
\* left by the event handler itself.  Cleanup of the previous run (line 67)
\* first, then the body: a new interval whose callback closes over b and s
\* (line 26), or clearInterval (line 63).
EffectLive(L, ref, a, b, s) ==
  IF ~DepsChanged(a, b, s) THEN L
  ELSE LET L2 == ClearInterval(L, ref)
       IN IF a THEN L2 \cup {[id |-> FreshId(L2, ref), isBreak |-> b, sessionCount |-> s]}
               ELSE ClearInterval(L2, ref)

\* Variant of EffectRef: the id returned by setInterval is not stored.
EffectRefNotStored(L, ref, a, b, s) == ref

\* intervalRef.current after the effect (line 26).
EffectRef(L, ref, a, b, s) ==
  IF DepsChanged(a, b, s) /\ a THEN FreshId(ClearInterval(L, ref), ref) ELSE ref

RunEffect(L, ref) ==
  /\ live' = EffectLive(L, ref, isActive', isBreak', sessionCount')
  /\ intervalRef' = EffectRef(L, ref, isActive', isBreak', sessionCount')

\* ---- initial state (lines 12-20; the mount effect takes the else branch) ----
Init ==
  /\ timer = WORK_TIME
  /\ isActive = FALSE
  /\ isBreak = FALSE
  /\ sessionCount = 0
  /\ showModal = FALSE
  /\ modalMessage = MsgNone
  /\ intervalRef = Null
  /\ live = {}
  /\ lastOp = "init"

\* ---- the interval callback (lines 26-60) ----
\* Variant of TickLongBreak: the test made on the count before its increment.
TickLongBreakNoIncrement(iv) == iv.sessionCount % LONG_BREAK_INTERVAL = 0

\* Long break test of line 41, on the sessionCount captured by the closure.
TickLongBreak(iv) == (iv.sessionCount + 1) % LONG_BREAK_INTERVAL = 0

\* Variant of TickTimerUpdates: the updater's return value applied last.
TickTimerUpdatesReturnLast(iv) ==
  (IF ~iv.isBreak
   THEN (IF TickLongBreak(iv) THEN <<LONG_BREAK_TIME>> ELSE <<SHORT_BREAK_TIME>>)
   ELSE <<WORK_TIME>>) \o <<0>>

\* Variant of TickTimerUpdates: only the updater's return value.
TickTimerUpdatesOnlyReturn(iv) == <<0>>

\* The updates of the timer cell made by one run of the updater at
\* prevTimer <= 1, in the order React applies them: the updater's own update
\* yields its return value 0 (line 56); the setTimer calls made while the
\* updater runs (lines 43, 47, 52) are enqueued behind it on the same cell and
\* are applied after it.
TickTimerUpdates(iv) ==
  <<0>> \o (IF ~iv.isBreak
            THEN (IF TickLongBreak(iv) THEN <<LONG_BREAK_TIME>> ELSE <<SHORT_BREAK_TIME>>)
            ELSE <<WORK_TIME>>)

\* Value of a state cell after a sequence of plain-value updates.
ApplyUpdates(q) == q[Len(q)]

\* Variant of TickMessage: the branches of line 38 exchanged.
TickMessageSwapped(iv) ==
  IF iv.isBreak THEN (IF TickLongBreak(iv) THEN MsgLong ELSE MsgShort) ELSE MsgWork

\* modalMessage set by the completion branch (lines 44, 48, 53).
TickMessage(iv) ==
  IF ~iv.isBreak THEN (IF TickLongBreak(iv) THEN MsgLong ELSE MsgShort) ELSE MsgWork

\* Variant of TickSessionCount: every completed phase counted.
TickSessionCountAlways(iv, count) == count + 1

\* sessionCount after the completion branch (lines 38-39): the functional
\* update prevCount + 1 on the current count, made only when the closure's
\* isBreak is false.
TickSessionCount(iv, count) == IF ~iv.isBreak THEN count + 1 ELSE count

\* One firing of the callback of live interval iv: prevTimer > 1 (line 58).
TickDecrement(iv) ==
  /\ timer > 1
  /\ timer' = timer - 1
  /\ UNCHANGED <<isActive, isBreak, sessionCount, showModal, modalMessage>>
  /\ RunEffect(live, intervalRef)
  /\ lastOp' = "tick"

\* Variant of TickComplete: line 51 sets isBreak to true.
TickCompleteBreakStays(iv) ==
  /\ timer <= 1
  /\ iv.isBreak \/ sessionCount < MaxSessions
  /\ isActive' = FALSE
  /\ sessionCount' = TickSessionCount(iv, sessionCount)
  /\ isBreak' = TRUE
  /\ timer' = ApplyUpdates(TickTimerUpdates(iv))
  /\ modalMessage' = TickMessage(iv)
  /\ showModal' = TRUE
  /\ RunEffect(ClearInterval(live, intervalRef), intervalRef)
  /\ lastOp' = "complete"

\* One firing of the callback of live interval iv: prevTimer <= 1 (lines 29-57).
TickComplete(iv) ==
  /\ timer <= 1
  /\ iv.isBreak \/ sessionCount < MaxSessions
  /\ isActive' = FALSE
  /\ sessionCount' = TickSessionCount(iv, sessionCount)
  /\ isBreak' = ~iv.isBreak
  /\ timer' = ApplyUpdates(TickTimerUpdates(iv))
  /\ modalMessage' = TickMessage(iv)
  /\ showModal' = TRUE
  /\ RunEffect(ClearInterval(live, intervalRef), intervalRef)
  /\ lastOp' = "complete"

Tick == \E iv \in live : TickDecrement(iv) \/ TickComplete(iv)

\* Variant of HandleStartPause: starting also reloads the Work duration.
HandleStartPauseReloads ==
  /\ isActive' = ~isActive
  /\ timer' = IF isActive THEN timer ELSE WORK_TIME
  /\ UNCHANGED <<isBreak, sessionCount, showModal, modalMessage>>
  /\ RunEffect(live, intervalRef)
  /\ lastOp' = "startpause"

\* ---- handleStartPause (lines 78-80) ----
HandleStartPause ==
  /\ isActive' = ~isActive
  /\ UNCHANGED <<timer, isBreak, sessionCount, showModal, modalMessage>>
  /\ RunEffect(live, intervalRef)
  /\ lastOp' = "startpause"

\* Variant of HandleReset: line 88 missing.
HandleResetKeepsCount ==
  /\ isActive' = FALSE
  /\ isBreak' = FALSE
  /\ timer' = WORK_TIME
  /\ UNCHANGED <<sessionCount, showModal, modalMessage>>
  /\ RunEffect(ClearInterval(live, intervalRef), intervalRef)
  /\ lastOp' = "reset"

\* ---- handleReset (lines 83-89) ----
HandleReset ==
  /\ isActive' = FALSE
  /\ isBreak' = FALSE
  /\ timer' = WORK_TIME
  /\ sessionCount' = 0
  /\ UNCHANGED <<showModal, modalMessage>>
  /\ RunEffect(ClearInterval(live, intervalRef), intervalRef)
  /\ lastOp' = "reset"

\* ---- handleSkip (lines 92-110) ----
\* Variant of SkipLongBreak: the test made on the count before its increment.
SkipLongBreakNoIncrement(count) == count % LONG_BREAK_INTERVAL = 0

\* Long break test of line 98, on the sessionCount of the current render.
SkipLongBreak(count) == (count + 1) % LONG_BREAK_INTERVAL = 0

\* Variant of SkipTimer: the durations of the two branches of line 96 exchanged.
SkipTimerSwapped(brk, count) ==
  IF brk THEN (IF SkipLongBreak(count) THEN LONG_BREAK_TIME ELSE SHORT_BREAK_TIME)
  ELSE WORK_TIME

\* timer set by handleSkip (lines 96-108).
SkipTimer(brk, count) ==
  IF ~brk THEN (IF SkipLongBreak(count) THEN LONG_BREAK_TIME ELSE SHORT_BREAK_TIME)
  ELSE WORK_TIME

\* sessionCount after handleSkip (lines 96-97).
SkipSessionCount(brk, count) == IF ~brk THEN count + 1 ELSE count

\* Variant of SkipActive: the two calls in the opposite order.
SkipActiveStops == ApplyUpdates(<<TRUE, FALSE>>)

\* setIsActive(false) of line 94 and setIsActive(true) of line 109 are in one
\* batch: the committed value is that of the last call.
SkipActive == ApplyUpdates(<<FALSE, TRUE>>)

HandleSkip ==
  /\ isBreak \/ sessionCount < MaxSessions
  /\ sessionCount' = SkipSessionCount(isBreak, sessionCount)
  /\ isBreak' = ~isBreak
  /\ timer' = SkipTimer(isBreak, sessionCount)
  /\ isActive' = SkipActive
  /\ UNCHANGED <<showModal, modalMessage>>
  /\ RunEffect(ClearInterval(live, intervalRef), intervalRef)
  /\ lastOp' = "skip"

\* Variant of HandleCloseModal: line 115 missing.
HandleCloseModalNoResume ==
  /\ showModal
  /\ showModal' = FALSE
  /\ UNCHANGED <<timer, isActive, isBreak, sessionCount, modalMessage>>
  /\ RunEffect(live, intervalRef)
  /\ lastOp' = "close"

\* Variant of HandleCloseModal: the handler reachable while no modal is
\* rendered.
HandleCloseModalAlwaysRendered ==
  /\ showModal' = FALSE
  /\ isActive' = TRUE
  /\ UNCHANGED <<timer, isBreak, sessionCount, modalMessage>>
  /\ RunEffect(live, intervalRef)
  /\ lastOp' = "close"

\* ---- handleCloseModal (lines 113-116); its button exists only while the
\* modal is rendered (line 164) ----
HandleCloseModal ==
  /\ showModal
  /\ showModal' = FALSE
  /\ isActive' = TRUE
  /\ UNCHANGED <<timer, isBreak, sessionCount, modalMessage>>
  /\ RunEffect(live, intervalRef)
  /\ lastOp' = "close"

Next ==
  \/ Tick
  \/ HandleStartPause
  \/ HandleReset
  \/ HandleSkip
  \/ HandleCloseModal

Spec == Init /\ [][Next]_vars

\* The interval fires every second for as long as it is live (line 60), and
\* the modal's Continue button is pressed at some time after the modal is shown.
FairSpec == Spec /\ WF_vars(Tick) /\ WF_vars(HandleCloseModal)

\* ======================= properties =======================

C2_CompletionStopsAndNotifies ==
  [][ lastOp' = "complete" =>
        /\ ~isActive'
        /\ showModal'
        /\ isBreak' = ~isBreak
        /\ (~isBreak => modalMessage' \in {MsgShort, MsgLong})
        /\ (isBreak => modalMessage' = MsgWork)
        /\ live' = {}
    ]_vars

\* C2 witness: a break has just completed.
C2_Witness ==
  /\ lastOp = "complete"
  /\ ~isBreak /\ ~isActive /\ showModal
  /\ modalMessage = MsgWork
  /\ sessionCount = 1

\* C3: when a tick completes a Work phase, the break entered is the long one
\* (900 s, long-break message) iff sessionCount right after the increment is a
\* multiple of 4, and the short one (300 s) otherwise.
C3_LongBreakEveryFourth ==
  [][ (lastOp' = "complete" /\ ~isBreak) =>
        IF sessionCount' % LONG_BREAK_INTERVAL = 0
        THEN timer' = LONG_BREAK_TIME /\ modalMessage' = MsgLong
        ELSE timer' = SHORT_BREAK_TIME /\ modalMessage' = MsgShort
    ]_vars

\* C3 witness: the eighth Work phase has just completed into a long break.
C3_Witness ==
  /\ lastOp = "complete"
  /\ isBreak
  /\ sessionCount = 8
  /\ timer = LONG_BREAK_TIME
  /\ modalMessage = MsgLong

C5_SessionCountSteps ==
  [][ IF lastOp' \in {"complete", "skip"} /\ ~isBreak
      THEN sessionCount' = sessionCount + 1
      ELSE IF lastOp' = "reset"
      THEN sessionCount' = 0
      ELSE sessionCount' = sessionCount
    ]_vars

\* C5 witness: a break completed after two Work phases; the count stayed at 2.
C5_Witness ==
  /\ lastOp = "complete"
  /\ ~isBreak
  /\ sessionCount = 2

\* C6: isActive is false whenever the modal is shown.
C6_ModalImpliesInactive == showModal => ~isActive

\* C7: Start/Pause pressed while the modal is shown and the timer is stopped
\* changes nothing: isActive stays false and no interval is created.
C7_StartRejectedWhilePending ==
  [][ (showModal /\ ~isActive /\ lastOp' = "startpause") =>
        /\ ~isActive'
        /\ live' = {}
        /\ UNCHANGED <<timer, isBreak, sessionCount, showModal, modalMessage>>
    ]_vars

C9_ResetClearsNotification ==
  lastOp = "reset" =>
    /\ ~showModal
    /\ ~isBreak
    /\ timer = WORK_TIME
    /\ ~isActive
    /\ sessionCount = 0

\* C10: skip leaves showModal and modalMessage as they were, leaves isActive
\* true, and leaves exactly one live interval, the one intervalRef holds,
\* whose closure has the new phase and count.
C10_SkipResumesWithoutNotification ==
  [][ lastOp' = "skip" =>
        /\ showModal' = showModal
        /\ modalMessage' = modalMessage
        /\ isActive'
        /\ live' = {[id |-> intervalRef', isBreak |-> isBreak',
                     sessionCount |-> sessionCount']}
    ]_vars

\* C10 witness: skip was pressed and the Work phase is running with no modal.
C10_Witness ==
  /\ lastOp = "skip"
  /\ ~isBreak /\ isActive /\ ~showModal
  /\ timer = WORK_TIME
  /\ sessionCount = 1
  /\ Cardinality(live) = 1

\* C11: closing the modal while it is shown hides it, sets isActive true and
\* leaves isBreak, timer and sessionCount unchanged.
C11_CloseModalResumes ==
  [][ (showModal /\ lastOp' = "close") =>
        /\ ~showModal'
        /\ isActive'
        /\ UNCHANGED <<timer, isBreak, sessionCount>>
    ]_vars

\* C11 witness: the modal of the fourth completed Work phase was closed and
\* the long break runs from its full duration.
C11_Witness ==
  /\ lastOp = "close"
  /\ ~showModal /\ isActive /\ isBreak
  /\ modalMessage = MsgLong
  /\ sessionCount = 4
  /\ timer = LONG_BREAK_TIME

C13_TickDecrementsCompletionOnce ==
  [][ /\ lastOp' = "tick" =>
           /\ timer > 1
           /\ timer' = timer - 1
           /\ UNCHANGED <<isActive, isBreak, sessionCount, showModal,
                          modalMessage, intervalRef, live>>
      /\ lastOp' = "complete" =>
           /\ timer <= 1
           /\ timer' > 1
           /\ live' = {}
           /\ isBreak' = ~isBreak
           /\ sessionCount' \in {sessionCount, sessionCount + 1}
      /\ lastOp = "complete" => lastOp' \notin {"tick", "complete"}
      /\ (lastOp = "complete" /\ lastOp' \in {"close", "startpause"}) =>
           (isActive' /\ timer' > 1)
    ]_vars

\* C13 witness: the first tick after the modal of a completed Work phase was
\* closed took the short break from 300 to 299.
C13_Witness ==
  /\ lastOp = "tick"
  /\ isBreak /\ isActive /\ ~showModal
  /\ modalMessage = MsgShort
  /\ sessionCount = 1
  /\ timer = SHORT_BREAK_TIME - 1

C15_OneIntervalNoLeak ==
  /\ Cardinality(live) <= 1
  /\ ~isActive => live = {}
  /\ isActive => Cardinality(live) = 1
  /\ IdsOf(live) \subseteq {intervalRef}

\* C15 witness: the timer was made active again by closing the modal; the
\* interval of the earlier run is gone and the one live is a later one.
C15_Witness ==
  /\ lastOp = "close"
  /\ isActive
  /\ intervalRef = 2
  /\ IdsOf(live) = {2}

C17_PhaseAlternates ==
  [][ /\ lastOp' \in {"complete", "skip"} => isBreak' = ~isBreak
      /\ lastOp' = "reset" => ~isBreak'
      /\ lastOp' \in {"tick", "startpause", "close"} => isBreak' = isBreak
    ]_vars

\* C17 witness: a break that followed two Work phases has completed by tick
\* and Work is entered again.
C17_Witness ==
  /\ lastOp = "complete"
  /\ ~isBreak
  /\ sessionCount = 3
  /\ timer = WORK_TIME
  /\ modalMessage = MsgWork

\* C18: Start/Pause pressed while no modal is shown toggles isActive and
\* leaves timer, isBreak, sessionCount, showModal and modalMessage unchanged
\* (so a pause followed by a start resumes from the same timer).
C18_StartPauseTogglesOnly ==
  [][ (~showModal /\ lastOp' = "startpause") =>
        /\ isActive' = ~isActive
        /\ UNCHANGED <<timer, isBreak, sessionCount, showModal, modalMessage>>
    ]_vars

\* C18 witness: the Work countdown was started again at 3599 seconds after
\* a pause.
C18_Witness ==
  /\ lastOp = "startpause"
  /\ isActive /\ ~isBreak /\ ~showModal
  /\ modalMessage = MsgNone
  /\ sessionCount = 0
  /\ timer = WORK_TIME - 1

\* C19: while the modal is shown its message agrees with the phase: "Time to
\* work!" exactly in Work, a break message exactly in a break, and the long
\* break message only in a long break.
C19_MessageMatchesPhase ==
  showModal =>
    /\ (modalMessage = MsgWork) <=> ~isBreak
    /\ (modalMessage \in {MsgShort, MsgLong}) <=> isBreak
    /\ modalMessage = MsgLong => sessionCount % LONG_BREAK_INTERVAL = 0

\* A press of Start/Pause, Reset or Skip.
UserCommand == HandleStartPause \/ HandleReset \/ HandleSkip

\* C20: with the interval firing while it is live and every modal closed at
\* some time, phases keep completing for ever, unless Start/Pause, Reset or
\* Skip keep being pressed, the timer is left paused for ever, or the bound on
\* counted sessions is reached.
C20_CycleNeverStalls ==
  \/ []<><<lastOp' = "complete">>_vars
  \/ []<><<UserCommand>>_vars
  \/ <>[](~isActive /\ ~showModal)
  \/ <>[](sessionCount = MaxSessions)

\* C20 witness: two Work phases and the break between them have each run to
\* completion by ticks.
C20_Witness ==
  /\ lastOp = "complete"
  /\ isBreak /\ showModal
  /\ sessionCount = 2
  /\ modalMessage = MsgShort
====
